---- MODULE Spec2Model ----
(***************************************************************************)
(* Model of crawler.go: a concurrent POSIX directory crawler.              *)
(*                                                                         *)
(* Paths are sequences of path components; <<"r">> is "/r".  A file system *)
(* is a function from the paths that exist to their nodes.  The goroutines *)
(* of the program are the caller of Crawl (crawlPc), the background sink   *)
(* started on line 56 (sinkPc) and one goroutine per directory-visit task  *)
(* (the bag tasks).                                                        *)
(***************************************************************************)
EXTENDS Integers, Sequences, FiniteSets, Bags, TLC

\* ------------------------------------------------------------------ bounds
\* capacity of the Outputs channel as modelled (4096 in the program)
OutCap == 1
\* capacity of the Error channel as modelled (100 in the program)
ErrCap == 2
\* largest concurrency bound tried
MaxConc == 2
\* most directory-visit goroutines alive at once
MaxTasks == 4
\* deepest nesting of directory visits followed by the sequential walk
MaxDepth == 4

\* ------------------------------------------------------------- path algebra
\* path.Join / filepath.Clean on component sequences: "." is dropped and
\* ".." removes the component before it (nothing above the root).
RECURSIVE CleanFrom(_, _)
CleanFrom(acc, segs) ==
  IF segs = <<>> THEN acc
  ELSE LET s == Head(segs) IN
       IF s = "." THEN CleanFrom(acc, Tail(segs))
       ELSE IF s = ".."
            THEN CleanFrom(IF acc = <<>> THEN acc ELSE SubSeq(acc, 1, Len(acc) - 1),
                           Tail(segs))
            ELSE CleanFrom(Append(acc, s), Tail(segs))

Join(dir, segs) == CleanFrom(<<>>, dir \o segs)

Dir(p) == IF p = <<>> THEN p ELSE SubSeq(p, 1, Len(p) - 1)

Base(p) == p[Len(p)]

IsPrefix(p, q) == Len(p) <= Len(q) /\ SubSeq(q, 1, Len(p)) = p

\* ------------------------------------------------------------ file systems
DirN(entries) ==
  [kind |-> "dir", entries |-> entries, readable |-> TRUE, abs |-> FALSE, target |-> <<>>]
NoRead(entries) ==
  [kind |-> "dir", entries |-> entries, readable |-> FALSE, abs |-> FALSE, target |-> <<>>]
FileN ==
  [kind |-> "file", entries |-> <<>>, readable |-> TRUE, abs |-> FALSE, target |-> <<>>]
FifoN ==
  [kind |-> "other", entries |-> <<>>, readable |-> TRUE, abs |-> FALSE, target |-> <<>>]
RelLink(t) ==
  [kind |-> "link", entries |-> <<>>, readable |-> TRUE, abs |-> FALSE, target |-> t]
AbsLink(t) ==
  [kind |-> "link", entries |-> <<>>, readable |-> TRUE, abs |-> TRUE, target |-> t]

Root == <<"r">>

\* the scenario tree: d1/a.txt, d1/b.log, d2/c.txt
TreePlain ==
  (<<"r">> :> DirN(<<"d1", "d2">>)) @@
  (<<"r", "d1">> :> DirN(<<"a.txt", "b.log">>)) @@
  (<<"r", "d1", "a.txt">> :> FileN) @@
  (<<"r", "d1", "b.log">> :> FileN) @@
  (<<"r", "d2">> :> DirN(<<"c.txt">>)) @@
  (<<"r", "d2", "c.txt">> :> FileN)

\* a two-link cycle a -> b -> a beside unrelated files
TreeCycle ==
  (<<"r">> :> DirN(<<"a", "b", "u.txt", "d2">>)) @@
  (<<"r", "a">> :> RelLink(<<"b">>)) @@
  (<<"r", "b">> :> RelLink(<<"a">>)) @@
  (<<"r", "u.txt">> :> FileN) @@
  (<<"r", "d2">> :> DirN(<<"c.txt">>)) @@
  (<<"r", "d2", "c.txt">> :> FileN)

\* a self-link s -> s, a dangling link and a fifo beside an unrelated file
TreeSelf ==
  (<<"r">> :> DirN(<<"s", "g", "p", "u.txt">>)) @@
  (<<"r", "s">> :> RelLink(<<"s">>)) @@
  (<<"r", "g">> :> RelLink(<<"gone">>)) @@
  (<<"r", "p">> :> FifoN) @@
  (<<"r", "u.txt">> :> FileN)

\* a link that resolves to the directory that holds it: loop -> .
TreeLoop ==
  (<<"r">> :> DirN(<<"loop">>)) @@
  (<<"r", "loop">> :> RelLink(<<".">>))

\* a file reachable directly, through a link to it and through a link to
\* its directory
TreeDup ==
  (<<"r">> :> DirN(<<"l", "d2", "k">>)) @@
  (<<"r", "d2">> :> DirN(<<"c.txt">>)) @@
  (<<"r", "d2", "c.txt">> :> FileN) @@
  (<<"r", "k">> :> RelLink(<<"d2">>)) @@
  (<<"r", "l">> :> RelLink(<<"d2", "c.txt">>))

\* one directory that cannot be listed, one that can
TreeDenied ==
  (<<"r">> :> DirN(<<"x", "d2">>)) @@
  (<<"r", "x">> :> NoRead(<<"a.txt">>)) @@
  (<<"r", "x", "a.txt">> :> FileN) @@
  (<<"r", "d2">> :> DirN(<<"c.txt">>)) @@
  (<<"r", "d2", "c.txt">> :> FileN)

\* links with absolute targets: n to a file of another directory, l to a
\* link of that directory whose own target is relative
TreeAbs ==
  (<<"r">> :> DirN(<<"d1", "l", "n">>)) @@
  (<<"r", "d1">> :> DirN(<<"a.txt", "m">>)) @@
  (<<"r", "n">> :> AbsLink(<<"r", "d1", "a.txt">>)) @@
  (<<"r", "d1", "a.txt">> :> FileN) @@
  (<<"r", "d1", "m">> :> RelLink(<<"a.txt">>)) @@
  (<<"r", "l">> :> AbsLink(<<"r", "d1", "m">>))

\* four dangling links, one of them to a name that reads as a format
\* verb, before a regular file
TreeErrs ==
  (<<"r">> :> DirN(<<"g1", "g2", "g3", "g4", "u.txt">>)) @@
  (<<"r", "g1">> :> RelLink(<<"%s">>)) @@
  (<<"r", "g2">> :> RelLink(<<"gone2">>)) @@
  (<<"r", "g3">> :> RelLink(<<"gone3">>)) @@
  (<<"r", "g4">> :> RelLink(<<"gone4">>)) @@
  (<<"r", "u.txt">> :> FileN)

Trees ==
  <<TreePlain, TreeCycle, TreeSelf, TreeLoop, TreeDup, TreeDenied, TreeAbs, TreeErrs>>

\* names that end in ".txt"
TxtNames == {"a.txt", "c.txt", "u.txt"}

Patterns == {"", "\\.txt$"}

\* regexp.MatchString on the joined path, for the patterns above
MatchString(pat, p) ==
  IF pat = "\\.txt$" THEN p # <<>> /\ Base(p) \in TxtNames ELSE FALSE

\* ------------------------------------------------------------- OS primitives
\* os.Lstat: the node at the path, its base name and its identity.  No
\* link target of the trees above passes through another link, so the
\* kernel's walk of the intermediate components is the lookup of the path.
Lstat(fs, p) ==
  IF p \in DOMAIN fs
  THEN [err |-> "", name |-> Base(p), kind |-> fs[p].kind, ino |-> p]
  ELSE [err |-> "lstat", name |-> "", kind |-> "", ino |-> <<>>]

\* readDir: the listing, or an error for a path that is missing, is not a
\* directory or cannot be opened
readDir(fs, p) ==
  IF p \in DOMAIN fs /\ fs[p].kind = "dir" /\ fs[p].readable
  THEN [err |-> "", files |-> fs[p].entries]
  ELSE [err |-> "open", files |-> <<>>]

\* ------------------------------------------------------------ resolveSymlink
\* one dereference (lines 158-166 and 184-192): the candidate named by the
\* target read at link, and the directory later relative targets are joined
\* to; an absolute target leaves that directory as it was
Deref(fs, link, filePath) ==
  IF fs[link].abs
  THEN [fileName |-> fs[link].target, filePath |-> filePath]
  ELSE LET f == Join(filePath, fs[link].target)
       IN [fileName |-> f, filePath |-> Dir(f)]

RECURSIVE ResolveLoop(_, _, _, _, _, _)
ResolveLoop(fs, linkName, fileName, filePath, filesSeen, steps) ==
  LET fi == Lstat(fs, fileName) IN
  IF fi.err # ""
  THEN [err |-> "lstat", at |-> fileName, fi |-> fi, dir |-> <<>>, steps |-> steps]
  ELSE IF fileName \in filesSeen
  THEN [err |-> "circular symlink", at |-> linkName, fi |-> fi, dir |-> <<>>, steps |-> steps]
  ELSE IF fi.kind = "link"
  THEN LET d == Deref(fs, fileName, filePath)
       IN ResolveLoop(fs, linkName, d.fileName, d.filePath,
                      filesSeen \cup {fileName}, steps + 1)
  ELSE [err |-> "", at |-> fileName, fi |-> fi, dir |-> filePath, steps |-> steps]

resolveSymlink(fs, currPath, name) ==
  LET linkName == Join(currPath, <<name>>) IN
  IF ~(linkName \in DOMAIN fs /\ fs[linkName].kind = "link")
  THEN [err |-> "readlink", at |-> linkName, fi |-> Lstat(fs, linkName), dir |-> <<>>, steps |-> 0]
  ELSE LET d == Deref(fs, linkName, currPath)
       IN ResolveLoop(fs, linkName, d.fileName, d.filePath, {}, 1)

\* a loop body that tests the pattern before it looks at the file type, so
\* that a directory whose path does not match is not scheduled
EntryOutcomeFilterDirs(fs, follow, pat, currPath, name) ==
  LET entryPath == Join(currPath, <<name>>)
      isLink == fs[entryPath].kind = "link"
      r == resolveSymlink(fs, currPath, name)
      resolved == follow /\ isLink
      filePath == IF resolved THEN Join(r.dir, <<r.fi.name>>) ELSE entryPath
      fileMode == IF resolved THEN r.fi.kind ELSE fs[entryPath].kind
      ino == IF resolved THEN r.fi.ino ELSE entryPath
      none == [msg |-> "", path |-> <<>>]
      norec == [path |-> <<>>, ino |-> <<>>]
  IN IF resolved /\ r.err # ""
     THEN [act |-> "error", path |-> <<>>, err |-> [msg |-> r.err, path |-> r.at], rec |-> norec]
     ELSE IF pat # "" /\ ~MatchString(pat, filePath)
     THEN [act |-> "skip", path |-> filePath, err |-> none, rec |-> norec]
     ELSE IF fileMode = "dir"
     THEN [act |-> "spawn", path |-> filePath, err |-> none, rec |-> norec]
     ELSE IF fileMode # "file"
     THEN [act |-> "skip", path |-> filePath, err |-> none, rec |-> norec]
     ELSE [act |-> "emit", path |-> filePath, err |-> none,
           rec |-> [path |-> filePath, ino |-> ino]]

\* a loop body that resolves every link, whatever the followSymlink option
EntryOutcomeAlwaysFollows(fs, follow, pat, currPath, name) ==
  LET entryPath == Join(currPath, <<name>>)
      isLink == fs[entryPath].kind = "link"
      r == resolveSymlink(fs, currPath, name)
      resolved == isLink
      filePath == IF resolved THEN Join(r.dir, <<r.fi.name>>) ELSE entryPath
      fileMode == IF resolved THEN r.fi.kind ELSE fs[entryPath].kind
      ino == IF resolved THEN r.fi.ino ELSE entryPath
      none == [msg |-> "", path |-> <<>>]
      norec == [path |-> <<>>, ino |-> <<>>]
  IN IF resolved /\ r.err # ""
     THEN [act |-> "error", path |-> <<>>, err |-> [msg |-> r.err, path |-> r.at], rec |-> norec]
     ELSE IF fileMode = "dir"
     THEN [act |-> "spawn", path |-> filePath, err |-> none, rec |-> norec]
     ELSE IF fileMode # "file"
     THEN [act |-> "skip", path |-> filePath, err |-> none, rec |-> norec]
     ELSE IF pat # "" /\ ~MatchString(pat, filePath)
     THEN [act |-> "skip", path |-> filePath, err |-> none, rec |-> norec]
     ELSE [act |-> "emit", path |-> filePath, err |-> none,
           rec |-> [path |-> filePath, ino |-> ino]]

\* -------------------------------------------------- one entry of a listing
\* what the body of the loop of crawlDir does with the entry called name of
\* the directory currPath: schedule a directory, emit a record, report an
\* error or skip
EntryOutcome(fs, follow, pat, currPath, name) ==
  LET entryPath == Join(currPath, <<name>>)
      isLink == fs[entryPath].kind = "link"
      r == resolveSymlink(fs, currPath, name)
      resolved == follow /\ isLink
      filePath == IF resolved THEN Join(r.dir, <<r.fi.name>>) ELSE entryPath
      fileMode == IF resolved THEN r.fi.kind ELSE fs[entryPath].kind
      ino == IF resolved THEN r.fi.ino ELSE entryPath
      none == [msg |-> "", path |-> <<>>]
      norec == [path |-> <<>>, ino |-> <<>>]
  IN IF resolved /\ r.err # ""
     THEN [act |-> "error", path |-> <<>>, err |-> [msg |-> r.err, path |-> r.at], rec |-> norec]
     ELSE IF fileMode = "dir"
     THEN [act |-> "spawn", path |-> filePath, err |-> none, rec |-> norec]
     ELSE IF fileMode # "file"
     THEN [act |-> "skip", path |-> filePath, err |-> none, rec |-> norec]
     ELSE IF pat # "" /\ ~MatchString(pat, filePath)
     THEN [act |-> "skip", path |-> filePath, err |-> none, rec |-> norec]
     ELSE [act |-> "emit", path |-> filePath, err |-> none,
           rec |-> [path |-> filePath, ino |-> ino]]

\* ------------------------------------------------------------------- state
VARIABLES
  tree,           \* index in Trees of the file system crawled
  conc,           \* the conc argument of NewPosixCrawler
  pattern,        \* the pattern argument ("" is no pattern)
  followSymlink,  \* the followSymlink argument
  crawlPc,        \* where the caller of NewPosixCrawler and Crawl stands
  tasks,          \* bag of directory-visit goroutines
  concLimit,      \* number of tokens in the concLimit channel
  wg,             \* the WaitGroup counter
  Outputs,        \* the Outputs channel
  outClosed,      \* Outputs has been closed
  Error,          \* the Error channel
  sinkPc,         \* the goroutine of line 56: "off", "recv", "print", "end"
  sinkInfo,       \* the record that goroutine has received and not printed
  mainInfo,       \* the record Crawl's own outputResult has received
  written,        \* the lines printed on standard output, in order
  result,         \* the messages of the error Crawl returned (<<>> is nil)
  raised,         \* history: every error a visit tried to send, in order
  sent            \* history: every record sent on Outputs, in order

vars == <<tree, conc, pattern, followSymlink, crawlPc, tasks, concLimit, wg,
          Outputs, outClosed, Error, sinkPc, sinkInfo, mainInfo, written, result,
          raised, sent>>

config == <<tree, conc, pattern, followSymlink>>

FS == Trees[tree]

Task(p, pc, i, m) == [path |-> p, pc |-> pc, idx |-> i, main |-> m]

Put(b, e) == b (+) SetToBag({e})
Take(b, e) == b (-) SetToBag({e})

\* a send that always enqueues
TrySendAlways(ch, e) == Append(ch, e)

\* the non-blocking send of lines 84-87 and 99-102
TrySend(ch, e) == IF Len(ch) < ErrCap THEN Append(ch, e) ELSE ch

Init ==
  /\ tree \in 1..Len(Trees)
  /\ conc \in -1..MaxConc
  /\ pattern \in Patterns
  /\ followSymlink \in BOOLEAN
  /\ crawlPc = "new"
  /\ tasks = EmptyBag
  /\ concLimit = 0
  /\ wg = 0
  /\ Outputs = <<>>
  /\ outClosed = FALSE
  /\ Error = <<>>
  /\ sinkPc = "off"
  /\ sinkInfo = <<>>
  /\ mainInfo = <<>>
  /\ written = <<>>
  /\ result = <<>>
  /\ raised = <<>>
  /\ sent = <<>>

\* ------------------------------------------------- NewPosixCrawler and Crawl
\* make(chan bool, conc) panics for a negative size
NewPanics ==
  /\ crawlPc = "new"
  /\ conc < 0
  /\ crawlPc' = "panicked"
  /\ UNCHANGED <<config, raised, sent, tasks, concLimit, wg, Outputs, outClosed, Error,
                 sinkPc, sinkInfo, mainInfo, written, result>>

NewPosixCrawler ==
  /\ crawlPc = "new"
  /\ conc >= 0
  /\ crawlPc' = "Crawl"
  /\ UNCHANGED <<config, raised, sent, tasks, concLimit, wg, Outputs, outClosed, Error,
                 sinkPc, sinkInfo, mainInfo, written, result>>

\* lines 56-58: start the sink, count the root visit
CrawlStart ==
  /\ crawlPc = "Crawl"
  /\ sinkPc' = "recv"
  /\ wg' = wg + 1
  /\ crawlPc' = "acquire"
  /\ UNCHANGED <<config, raised, sent, tasks, concLimit, Outputs, outClosed, Error,
                 sinkInfo, mainInfo, written, result>>

\* line 59, then the call of crawlDir on line 60
CrawlAcquire ==
  /\ crawlPc = "acquire"
  /\ concLimit < conc
  /\ concLimit' = concLimit + 1
  /\ tasks' = Put(tasks, Task(Root, "readDir", 0, TRUE))
  /\ crawlPc' = "crawlDir"
  /\ UNCHANGED <<config, raised, sent, wg, Outputs, outClosed, Error,
                 sinkPc, sinkInfo, mainInfo, written, result>>

\* line 61
CrawlWait ==
  /\ crawlPc = "Wait"
  /\ wg = 0
  /\ crawlPc' = "close"
  /\ UNCHANGED <<config, raised, sent, tasks, concLimit, wg, Outputs, outClosed, Error,
                 sinkPc, sinkInfo, mainInfo, written, result>>

\* line 63
CrawlCloseOutputs ==
  /\ crawlPc = "close"
  /\ outClosed' = TRUE
  /\ crawlPc' = "outputResult"
  /\ UNCHANGED <<config, raised, sent, tasks, concLimit, wg, Outputs, Error,
                 sinkPc, sinkInfo, mainInfo, written, result>>

\* a receive in Crawl's own outputResult that leaves the record in the
\* channel for the other reader
CrawlRecvPeeks ==
  /\ crawlPc = "outputResult"
  /\ Outputs # <<>>
  /\ mainInfo' = <<Head(Outputs)>>
  /\ crawlPc' = "print"
  /\ UNCHANGED <<config, raised, sent, tasks, concLimit, wg, Outputs, outClosed, Error,
                 sinkPc, sinkInfo, written, result>>

\* line 64: Crawl's own outputResult receives a record
CrawlRecv ==
  /\ crawlPc = "outputResult"
  /\ Outputs # <<>>
  /\ mainInfo' = <<Head(Outputs)>>
  /\ Outputs' = Tail(Outputs)
  /\ crawlPc' = "print"
  /\ UNCHANGED <<config, raised, sent, tasks, concLimit, wg, outClosed, Error,
                 sinkPc, sinkInfo, written, result>>

\* lines 203-204 in Crawl's own outputResult
CrawlPrint ==
  /\ crawlPc = "print"
  /\ written' = Append(written, mainInfo[1])
  /\ mainInfo' = <<>>
  /\ crawlPc' = "outputResult"
  /\ UNCHANGED <<config, raised, sent, tasks, concLimit, wg, Outputs, outClosed, Error,
                 sinkPc, sinkInfo, result>>

\* the range loop of line 202 ends: the channel is closed and empty
CrawlDrained ==
  /\ crawlPc = "outputResult"
  /\ Outputs = <<>>
  /\ outClosed
  /\ crawlPc' = "closeError"
  /\ UNCHANGED <<config, raised, sent, tasks, concLimit, wg, Outputs, outClosed, Error,
                 sinkPc, sinkInfo, mainInfo, written, result>>

\* fmt.Errorf applied to text used as the format with no operands: a
\* verb in the text is replaced by the notice of its missing operand
Sprintf(name) == IF name = "%s" THEN "%!s(MISSING)" ELSE name

\* line 73: the collected messages, joined, pass through fmt.Errorf
Errorf(errors) ==
  [i \in DOMAIN errors |->
    [msg |-> errors[i].msg,
     path |-> [k \in DOMAIN errors[i].path |-> Sprintf(errors[i].path[k])]]]

\* lines 66-76: close the error channel, collect its messages, return
CrawlReturn ==
  /\ crawlPc = "closeError"
  /\ result' = Errorf(Error)
  /\ Error' = <<>>
  /\ crawlPc' = "returned"
  /\ UNCHANGED <<config, raised, sent, tasks, concLimit, wg, Outputs, outClosed,
                 sinkPc, sinkInfo, mainInfo, written>>

\* lines 225-229: main returns and the process ends, the sink with it
MainExit ==
  /\ crawlPc = "returned"
  /\ crawlPc' = "exited"
  /\ UNCHANGED <<config, raised, sent, tasks, concLimit, wg, Outputs, outClosed, Error,
                 sinkPc, sinkInfo, mainInfo, written, result>>

\* ------------------------------------------------------- the background sink
\* a sink that takes a token from concLimit's free room before it receives
SinkRecvNeedsToken ==
  /\ sinkPc = "recv"
  /\ crawlPc # "exited"
  /\ concLimit < conc
  /\ Outputs # <<>>
  /\ sinkInfo' = <<Head(Outputs)>>
  /\ Outputs' = Tail(Outputs)
  /\ sinkPc' = "print"
  /\ UNCHANGED <<config, raised, sent, crawlPc, tasks, concLimit, wg, outClosed, Error,
                 mainInfo, written, result>>

SinkRecv ==
  /\ sinkPc = "recv"
  /\ crawlPc # "exited"
  /\ Outputs # <<>>
  /\ sinkInfo' = <<Head(Outputs)>>
  /\ Outputs' = Tail(Outputs)
  /\ sinkPc' = "print"
  /\ UNCHANGED <<config, raised, sent, crawlPc, tasks, concLimit, wg, outClosed, Error,
                 mainInfo, written, result>>

SinkPrint ==
  /\ sinkPc = "print"
  /\ crawlPc # "exited"
  /\ written' = Append(written, sinkInfo[1])
  /\ sinkInfo' = <<>>
  /\ sinkPc' = "recv"
  /\ UNCHANGED <<config, raised, sent, crawlPc, tasks, concLimit, wg, Outputs, outClosed, Error,
                 mainInfo, result>>

SinkEnd ==
  /\ sinkPc = "recv"
  /\ crawlPc # "exited"
  /\ Outputs = <<>>
  /\ outClosed
  /\ sinkPc' = "end"
  /\ UNCHANGED <<config, raised, sent, crawlPc, tasks, concLimit, wg, Outputs, outClosed, Error,
                 sinkInfo, mainInfo, written, result>>

\* ------------------------------------------------------------------ crawlDir
\* a goroutine that starts its visit without waiting for room in concLimit
AcquireUnbounded(t) ==
  /\ t.pc = "acquire"
  /\ concLimit' = concLimit + 1
  /\ tasks' = Put(Take(tasks, t), [t EXCEPT !.pc = "readDir"])
  /\ UNCHANGED <<config, raised, sent, crawlPc, wg, Outputs, outClosed, Error,
                 sinkPc, sinkInfo, mainInfo, written, result>>

\* line 115: a spawned goroutine takes its token
Acquire(t) ==
  /\ t.pc = "acquire"
  /\ concLimit < conc
  /\ concLimit' = concLimit + 1
  /\ tasks' = Put(Take(tasks, t), [t EXCEPT !.pc = "readDir"])
  /\ UNCHANGED <<config, raised, sent, crawlPc, wg, Outputs, outClosed, Error,
                 sinkPc, sinkInfo, mainInfo, written, result>>

\* the state of a visit after its entry number i
After(t, i) ==
  IF i >= Len(readDir(FS, t.path).files)
  THEN [t EXCEPT !.pc = "release", !.idx = 0]
  ELSE [t EXCEPT !.pc = "entry", !.idx = i + 1]

\* a failed listing that ends the visit without reporting the error
ReadDirFailsSilent(t) ==
  /\ t.pc = "readDir"
  /\ readDir(FS, t.path).err # ""
  /\ tasks' = Put(Take(tasks, t), [t EXCEPT !.pc = "release"])
  /\ UNCHANGED <<config, raised, sent, crawlPc, concLimit, wg, Outputs, outClosed, Error,
                 sinkPc, sinkInfo, mainInfo, written, result>>

\* a failed listing that returns before the token is given back
ReadDirFailsKeepsToken(t) ==
  /\ t.pc = "readDir"
  /\ readDir(FS, t.path).err # ""
  /\ Error' = TrySend(Error, [msg |-> readDir(FS, t.path).err, path |-> t.path])
  /\ raised' = Append(raised, [msg |-> readDir(FS, t.path).err, path |-> t.path])
  /\ tasks' = Put(Take(tasks, t), [t EXCEPT !.pc = "done"])
  /\ UNCHANGED <<config, sent, crawlPc, concLimit, wg, Outputs, outClosed,
                 sinkPc, sinkInfo, mainInfo, written, result>>

\* lines 82-89, the listing fails
ReadDirFails(t) ==
  /\ t.pc = "readDir"
  /\ readDir(FS, t.path).err # ""
  /\ Error' = TrySend(Error, [msg |-> readDir(FS, t.path).err, path |-> t.path])
  /\ raised' = Append(raised, [msg |-> readDir(FS, t.path).err, path |-> t.path])
  /\ tasks' = Put(Take(tasks, t), [t EXCEPT !.pc = "release"])
  /\ UNCHANGED <<config, sent, crawlPc, concLimit, wg, Outputs, outClosed,
                 sinkPc, sinkInfo, mainInfo, written, result>>

\* line 82, the listing succeeds
ReadDirOk(t) ==
  /\ t.pc = "readDir"
  /\ readDir(FS, t.path).err = ""
  /\ tasks' = Put(Take(tasks, t), After(t, 0))
  /\ UNCHANGED <<config, raised, sent, crawlPc, concLimit, wg, Outputs, outClosed, Error,
                 sinkPc, sinkInfo, mainInfo, written, result>>

\* the loop body applied to every entry of every directory that can be
\* listed, for each tree, link option and pattern
Outcomes ==
  [i \in DOMAIN Trees |->
    [f \in BOOLEAN |->
      [pat \in Patterns |->
        [d \in {p \in DOMAIN Trees[i] : readDir(Trees[i], p).err = ""} |->
          [k \in DOMAIN readDir(Trees[i], d).files |->
            EntryOutcome(Trees[i], f, pat, d, readDir(Trees[i], d).files[k])]]]]]

\* what the visit t does with the entry it stands at
Outcome(t) == Outcomes[tree][followSymlink][pattern][t.path][t.idx]

\* a failed resolution that ends the visit, as a failed listing does
EntryErrorAborts(t) ==
  /\ t.pc = "entry"
  /\ Outcome(t).act = "error"
  /\ Error' = TrySend(Error, Outcome(t).err)
  /\ raised' = Append(raised, Outcome(t).err)
  /\ tasks' = Put(Take(tasks, t), [t EXCEPT !.pc = "release", !.idx = 0])
  /\ UNCHANGED <<config, sent, crawlPc, concLimit, wg, Outputs, outClosed,
                 sinkPc, sinkInfo, mainInfo, written, result>>

\* a failed resolution after which the visit also passes over the entry
\* that follows
EntryErrorSkipsNext(t) ==
  /\ t.pc = "entry"
  /\ Outcome(t).act = "error"
  /\ Error' = TrySend(Error, Outcome(t).err)
  /\ raised' = Append(raised, Outcome(t).err)
  /\ tasks' = Put(Take(tasks, t), After(t, t.idx + 1))
  /\ UNCHANGED <<config, sent, crawlPc, concLimit, wg, Outputs, outClosed,
                 sinkPc, sinkInfo, mainInfo, written, result>>

\* lines 98-104: the link does not resolve
EntryError(t) ==
  /\ t.pc = "entry"
  /\ Outcome(t).act = "error"
  /\ Error' = TrySend(Error, Outcome(t).err)
  /\ raised' = Append(raised, Outcome(t).err)
  /\ tasks' = Put(Take(tasks, t), After(t, t.idx))
  /\ UNCHANGED <<config, sent, crawlPc, concLimit, wg, Outputs, outClosed,
                 sinkPc, sinkInfo, mainInfo, written, result>>

\* a directory whose goroutine is started without counting it
EntrySpawnNoAdd(t) ==
  /\ t.pc = "entry"
  /\ Outcome(t).act = "spawn"
  /\ tasks' = Put(Take(tasks, t), [t EXCEPT !.pc = "go"])
  /\ UNCHANGED <<config, raised, sent, crawlPc, concLimit, wg, Outputs, outClosed, Error,
                 sinkPc, sinkInfo, mainInfo, written, result>>

\* lines 112-113: the entry is a directory, it is counted
EntrySpawn(t) ==
  /\ t.pc = "entry"
  /\ Outcome(t).act = "spawn"
  /\ wg' = wg + 1
  /\ tasks' = Put(Take(tasks, t), [t EXCEPT !.pc = "go"])
  /\ UNCHANGED <<config, raised, sent, crawlPc, concLimit, Outputs, outClosed, Error,
                 sinkPc, sinkInfo, mainInfo, written, result>>

\* lines 114-118: the goroutine of the counted directory is started
Launch(t) ==
  /\ t.pc = "go"
  /\ BagCardinality(tasks) < MaxTasks
  /\ tasks' = Put(Put(Take(tasks, t), After(t, t.idx)),
                  Task(Outcome(t).path, "acquire", 0, FALSE))
  /\ UNCHANGED <<config, raised, sent, crawlPc, concLimit, wg, Outputs, outClosed, Error,
                 sinkPc, sinkInfo, mainInfo, written, result>>

\* lines 121-127
EntrySkip(t) ==
  /\ t.pc = "entry"
  /\ Outcome(t).act = "skip"
  /\ tasks' = Put(Take(tasks, t), After(t, t.idx))
  /\ UNCHANGED <<config, raised, sent, crawlPc, concLimit, wg, Outputs, outClosed, Error,
                 sinkPc, sinkInfo, mainInfo, written, result>>

\* a send of the record that gives up when the channel is full, as the
\* sends of errors do
EntryEmitDrops(t) ==
  /\ t.pc = "entry"
  /\ Outcome(t).act = "emit"
  /\ ~outClosed
  /\ Outputs' = IF Len(Outputs) < OutCap THEN Append(Outputs, Outcome(t).rec) ELSE Outputs
  /\ sent' = IF Len(Outputs) < OutCap THEN Append(sent, Outcome(t).rec) ELSE sent
  /\ tasks' = Put(Take(tasks, t), After(t, t.idx))
  /\ UNCHANGED <<config, raised, crawlPc, concLimit, wg, outClosed, Error,
                 sinkPc, sinkInfo, mainInfo, written, result>>

\* lines 129-140: the send blocks while the channel is full
EntryEmit(t) ==
  /\ t.pc = "entry"
  /\ Outcome(t).act = "emit"
  /\ ~outClosed
  /\ Len(Outputs) < OutCap
  /\ Outputs' = Append(Outputs, Outcome(t).rec)
  /\ sent' = Append(sent, Outcome(t).rec)
  /\ tasks' = Put(Take(tasks, t), After(t, t.idx))
  /\ UNCHANGED <<config, raised, crawlPc, concLimit, wg, outClosed, Error,
                 sinkPc, sinkInfo, mainInfo, written, result>>

\* line 81, the deferred receive from concLimit
Release(t) ==
  /\ t.pc = "release"
  /\ concLimit' = concLimit - 1
  /\ tasks' = Put(Take(tasks, t), [t EXCEPT !.pc = "done"])
  /\ UNCHANGED <<config, raised, sent, crawlPc, wg, Outputs, outClosed, Error,
                 sinkPc, sinkInfo, mainInfo, written, result>>

\* line 80, the deferred wg.Done; the root visit returns into Crawl
Done(t) ==
  /\ t.pc = "done"
  /\ wg' = wg - 1
  /\ tasks' = Take(tasks, t)
  /\ crawlPc' = IF t.main THEN "Wait" ELSE crawlPc
  /\ UNCHANGED <<config, raised, sent, concLimit, Outputs, outClosed, Error,
                 sinkPc, sinkInfo, mainInfo, written, result>>

AcquireStep == \E t \in BagToSet(tasks) : Acquire(t)
ReadDirFailsStep == \E t \in BagToSet(tasks) : ReadDirFails(t)
ReadDirOkStep == \E t \in BagToSet(tasks) : ReadDirOk(t)
EntryErrorStep == \E t \in BagToSet(tasks) : EntryError(t)
EntrySpawnStep == \E t \in BagToSet(tasks) : EntrySpawn(t)
LaunchStep == \E t \in BagToSet(tasks) : Launch(t)
EntrySkipStep == \E t \in BagToSet(tasks) : EntrySkip(t)
EntryEmitStep == \E t \in BagToSet(tasks) : EntryEmit(t)
ReleaseStep == \E t \in BagToSet(tasks) : Release(t)
DoneStep == \E t \in BagToSet(tasks) : Done(t)

Next ==
  \/ NewPanics
  \/ NewPosixCrawler
  \/ CrawlStart
  \/ CrawlAcquire
  \/ CrawlWait
  \/ CrawlCloseOutputs
  \/ CrawlRecv
  \/ CrawlPrint
  \/ CrawlDrained
  \/ CrawlReturn
  \/ MainExit
  \/ SinkRecv
  \/ SinkPrint
  \/ SinkEnd
  \/ AcquireStep
  \/ ReadDirFailsStep
  \/ ReadDirOkStep
  \/ EntryErrorStep
  \/ EntrySpawnStep
  \/ LaunchStep
  \/ EntrySkipStep
  \/ EntryEmitStep
  \/ ReleaseStep
  \/ DoneStep

Spec == Init /\ [][Next]_vars

\* the steps of the caller of Crawl, of the sink and of the visits
CrawlSteps ==
  \/ NewPanics \/ NewPosixCrawler \/ CrawlStart \/ CrawlAcquire \/ CrawlWait
  \/ CrawlCloseOutputs \/ CrawlRecv \/ CrawlPrint \/ CrawlDrained
  \/ CrawlReturn \/ MainExit

SinkSteps == SinkRecv \/ SinkPrint \/ SinkEnd

VisitSteps ==
  \/ AcquireStep \/ ReadDirFailsStep \/ ReadDirOkStep \/ EntryErrorStep
  \/ EntrySpawnStep \/ LaunchStep \/ EntrySkipStep \/ EntryEmitStep
  \/ ReleaseStep \/ DoneStep

\* Every goroutine that can run is eventually run by the Go scheduler.
Fairness == WF_vars(CrawlSteps) /\ WF_vars(SinkSteps) /\ WF_vars(VisitSteps)

FairSpec == Spec /\ Fairness

\* ------------------------------------------------------- derived quantities
\* the visits that hold a token: acquired on line 59 or 115, not yet
\* released on line 81
Visiting == {t \in BagToSet(tasks) : t.pc \in {"readDir", "entry", "go", "release"}}

NumVisiting == BagCardinality([t \in Visiting |-> tasks[t]])

RECURSIVE SeqToBag(_)
SeqToBag(q) == IF q = <<>> THEN EmptyBag ELSE Put(SeqToBag(Tail(q)), Head(q))

\* every record sent on Outputs so far: printed, queued, or received and
\* not yet printed
Emitted == SeqToBag(written \o Outputs \o sinkInfo \o mainInfo)

NoSymlinks(fs) == \A p \in DOMAIN fs : fs[p].kind # "link"

\* ------------------------------------------------------------------ claims

\* C1: for conc >= 1 the number of visits that hold a token (the root visit
\* included) never exceeds conc.
C1_BoundedVisits == conc >= 1 => NumVisiting <= conc

\* the pool is saturated by two visits while a third goroutine waits
C1_Witness ==
  /\ conc = 2
  /\ NumVisiting = conc
  /\ \E t \in BagToSet(tasks) : t.pc = "acquire"

\* C2 (as claimed): with link-following enabled no regular file is written
\* to the output more than once.
C2_AtMostOnce ==
  followSymlink =>
    \A i, j \in DOMAIN written : i # j => written[i].ino # written[j].ino

\* the regular files below the root that a walk through listable
\* directories reaches
Listable(fs, p) ==
  \A k \in Len(Root)..(Len(p) - 1) : readDir(fs, SubSeq(p, 1, k)).err = ""

FilesUnder(fs, pat) ==
  {p \in DOMAIN fs : /\ fs[p].kind = "file"
                     /\ IsPrefix(Root, p)
                     /\ Listable(fs, p)
                     /\ (pat = "" \/ MatchString(pat, p))}

\* C3: on a tree without symlinks, when Crawl returns the records sent are
\* exactly one per regular file below the root whose joined path matches
\* the pattern (every file when there is no pattern), whatever the paths of
\* the directories on the way.
C3_ExactRecords ==
  (crawlPc = "returned" /\ NoSymlinks(FS)) =>
    Emitted = SetToBag({[path |-> p, ino |-> p] : p \in FilesUnder(FS, pattern)})

\* the scenario: pattern \.txt$ on d1/a.txt, d1/b.log, d2/c.txt gives two
\* records
C3_Witness ==
  /\ crawlPc = "returned"
  /\ tree = 1
  /\ pattern = "\\.txt$"
  /\ BagCardinality(Emitted) = 2

Range(q) == {q[i] : i \in DOMAIN q}

\* the links whose resolution ends in the "circular symlink" error
CircularLinks(fs) ==
  {p \in DOMAIN fs : /\ fs[p].kind = "link"
                     /\ resolveSymlink(fs, Dir(p), Base(p)).err = "circular symlink"}

NumLinks(fs) == Cardinality({p \in DOMAIN fs : fs[p].kind = "link"})

\* C4: with link-following enabled a directory holding a symlink cycle does
\* not hang the crawl: every link of the cycle resolves to the "circular
\* symlink" error within as many dereferences as there are links (plus one),
\* the error is in the report, and Crawl returns with every matching file
\* of the tree emitted.
C4_CycleCompletes ==
  (crawlPc = "new" /\ conc >= 1 /\ followSymlink /\ CircularLinks(FS) # {})
    ~> /\ crawlPc = "returned"
       /\ \A p \in CircularLinks(FS) :
            /\ resolveSymlink(FS, Dir(p), Base(p)).steps <= NumLinks(FS) + 1
            /\ [msg |-> "circular symlink", path |-> p] \in Range(result)
       /\ \A f \in FilesUnder(FS, pattern) :
            [path |-> f, ino |-> f] \in BagToSet(Emitted)

\* Crawl has returned from a tree with a cycle, the error reported and a
\* record emitted
C4_Witness ==
  /\ crawlPc = "returned"
  /\ followSymlink
  /\ CircularLinks(FS) # {}
  /\ \E e \in Range(result) : e.msg = "circular symlink"
  /\ Emitted # EmptyBag

\* C5 (as claimed): with link-following enabled and conc >= 1 Crawl
\* eventually returns on every tree, a link to an ancestor directory
\* included.
C5_Terminates ==
  (crawlPc = "new" /\ conc >= 1 /\ followSymlink) ~> (crawlPc = "returned")

\* C6: for every conc >= 1 and every symlink-free tree the crawl does not
\* deadlock: every goroutine started for a directory takes a token, runs and
\* ends, a visit blocked on the full result queue is released by the sink,
\* the counter reaches zero and Crawl returns.
C6_NoDeadlock ==
  (crawlPc = "new" /\ conc >= 1 /\ NoSymlinks(FS))
    ~> (crawlPc = "returned" /\ wg = 0 /\ tasks = EmptyBag /\ concLimit = 0)

\* the only token is held by a visit that is blocked on the full queue
\* while another goroutine waits for the token
C6_Witness ==
  /\ conc = 1
  /\ NoSymlinks(FS)
  /\ Len(Outputs) >= OutCap
  /\ \E t \in BagToSet(tasks) : t.pc = "entry" /\ Outcome(t).act = "emit"
  /\ \E t \in BagToSet(tasks) : t.pc = "acquire"

\* the records of a walk that visits one directory at a time, depth first
RECURSIVE SeqCrawl(_, _, _, _, _)
SeqCrawl(fs, follow, pat, dir, fuel) ==
  IF fuel = 0 \/ readDir(fs, dir).err # "" THEN {}
  ELSE LET files == readDir(fs, dir).files
           Of(i) == EntryOutcome(fs, follow, pat, dir, files[i])
       IN UNION {IF Of(i).act = "emit" THEN {Of(i).rec}
                 ELSE IF Of(i).act = "spawn"
                      THEN SeqCrawl(fs, follow, pat, Of(i).path, fuel - 1)
                      ELSE {} : i \in DOMAIN files}

\* C7: the set of records of a completed crawl depends on the tree, the
\* pattern and the link option only: for every conc >= 1 and every
\* interleaving it is the set a one-directory-at-a-time walk produces.
C7_SameRecordSet ==
  (crawlPc = "returned" /\ conc >= 1) =>
    BagToSet(Emitted) = SeqCrawl(FS, followSymlink, pattern, Root, MaxDepth)

\* a crawl with more than one token has completed with several records
C7_Witness ==
  /\ crawlPc = "returned"
  /\ conc > 1
  /\ Cardinality(BagToSet(Emitted)) >= 2

\* C8 (as claimed): with conc <= 0 the program neither crashes nor blocks
\* for ever on the token of the root visit.
C8_Rejected ==
  conc <= 0 =>
    /\ crawlPc # "panicked"
    /\ ~(crawlPc = "acquire" /\ concLimit >= conc /\ tasks = EmptyBag)

\* C9 (as claimed): when Crawl returns every record sent on Outputs has
\* been written.
C9_AllWritten == crawlPc = "returned" => SeqToBag(written) = Emitted

\* the directories the walk reaches and cannot list
Unlistable(fs) ==
  {p \in DOMAIN fs : /\ fs[p].kind = "dir"
                     /\ ~fs[p].readable
                     /\ IsPrefix(Root, p)
                     /\ Listable(fs, p)}

ErrorsAbout(q, d) == Cardinality({i \in DOMAIN q : q[i].path = d})

\* C10: a directory that cannot be listed gives no record and no task for
\* anything below it and at most one error; when Crawl returns from a
\* symlink-free tree the report holds exactly one error for it and every
\* matching file of the listable directories has been emitted.
C10_UnreadableDir ==
  \A d \in Unlistable(FS) :
    /\ \A t \in BagToSet(tasks) : ~(IsPrefix(d, t.path) /\ t.path # d)
    /\ \A r \in BagToSet(Emitted) : ~IsPrefix(d, r.path)
    /\ ErrorsAbout(Error \o result, d) <= 1
    /\ (crawlPc = "returned" /\ NoSymlinks(FS)) =>
         /\ ErrorsAbout(result, d) = 1
         /\ \A f \in FilesUnder(FS, pattern) :
              [path |-> f, ino |-> f] \in BagToSet(Emitted)

\* the scenario: one unreadable and one readable directory, one record and
\* one error
C10_Witness ==
  /\ crawlPc = "returned"
  /\ Unlistable(FS) # {}
  /\ Len(result) = 1
  /\ result[1].msg = "open"
  /\ BagCardinality(Emitted) = 1

\* the first n elements of a sequence
FirstN(q, n) == SubSeq(q, 1, IF Len(q) < n THEN Len(q) ELSE n)

\* C11 (as claimed): Crawl returns nil exactly when no error occurred, and
\* otherwise an error whose text is the collected messages, one per line.
C11_AggregatedError ==
  crawlPc = "returned" =>
    /\ (result = <<>>) <=> (raised = <<>>)
    /\ result = FirstN(raised, ErrCap)

\* C12: a visit gives its token back on every path, the failed listing
\* included, before it decrements the counter: the tokens in concLimit are
\* those of the visits in progress, a goroutine that is about to call
\* wg.Done holds none, and none is held when Crawl returns.
C12_TokenPerVisit ==
  conc >= 1 =>
    /\ concLimit = NumVisiting
    /\ (crawlPc \in {"returned", "exited"} => concLimit = 0)

\* a visit whose listing failed has released its token and not yet
\* decremented the counter, while another visit holds the only token
C12_Witness ==
  /\ conc = 1
  /\ concLimit = 1
  /\ \E t \in BagToSet(tasks) : t.pc = "done" /\ readDir(FS, t.path).err # ""

\* the goroutines that wait for a token or visit a directory
Outstanding == {t \in BagToSet(tasks) : t.pc # "done"}

\* C13: the counter is at least 1 whenever a goroutine waits for a token or
\* visits, it counts every goroutine that has not called wg.Done, and no
\* goroutine is left once Outputs or Error is closed, so nothing is sent on
\* a closed channel.
C13_CounterCoversTasks ==
  /\ (Outstanding # {} => wg >= 1)
  /\ wg >= BagCardinality(tasks)
  /\ (outClosed \/ crawlPc \in {"returned", "exited"}) => tasks = EmptyBag

\* a directory has been counted and its goroutine is not started yet
C13_Witness ==
  /\ \E t \in BagToSet(tasks) : t.pc = "go"
  /\ wg = BagCardinality(tasks) + 1

\* the entry a visit stands at, and the visits that stand at a link they
\* are about to resolve
EntryPath(t) == Join(t.path, <<readDir(FS, t.path).files[t.idx]>>)

AtLink == {t \in BagToSet(tasks) : t.pc = "entry" /\ FS[EntryPath(t)].kind = "link"}

Resolution(t) == resolveSymlink(FS, t.path, readDir(FS, t.path).files[t.idx])

\* C14 (as claimed): a resolution that succeeds returns the directory that
\* holds the final target, for relative and absolute targets alike, so the
\* path emitted or scheduled for a link is the real path of its target.
C14_RealPath ==
  followSymlink =>
    /\ \A t \in AtLink :
         Resolution(t).err = "" =>
           /\ Resolution(t).dir = Dir(Resolution(t).at)
           /\ Outcome(t).path = Resolution(t).at
    /\ \A r \in BagToSet(Emitted) : r.path = r.ino

\* where a chain of links that starts at p ends when every relative target
\* is read from the directory of the link that holds it; <<>> when a link
\* of the chain is missing or the chain does not end
RECURSIVE Target(_, _, _)
Target(fs, p, fuel) ==
  IF fuel = 0 \/ p \notin DOMAIN fs THEN <<>>
  ELSE IF fs[p].kind # "link" THEN p
  ELSE Target(fs, IF fs[p].abs THEN fs[p].target ELSE Join(Dir(p), fs[p].target),
              fuel - 1)

\* C15 (as claimed): a chain whose links all exist and that ends at a file
\* or directory resolves to that target and never to an error, also when
\* a relative target follows an absolute one.
C15_ChainResolves ==
  followSymlink =>
    \A t \in AtLink :
      Target(FS, EntryPath(t), NumLinks(FS) + 1) # <<>> =>
        /\ Resolution(t).err = ""
        /\ Resolution(t).fi.ino = Target(FS, EntryPath(t), NumLinks(FS) + 1)

\* what the crawl does with entry k of the directory d
OutcomeAt(d, k) == Outcomes[tree][followSymlink][pattern][d][k]

RootEntries == DOMAIN readDir(FS, Root).files

\* C16: a link that does not resolve costs its own entry only. A visit
\* that stands at a later entry of the directory has reported the error of
\* every failed link before it, and when Crawl returns every entry of the
\* root that follows a failed link has been processed: a matching file is
\* emitted, a directory has been crawled.
C16_SkipsOnlyEntry ==
  followSymlink =>
    /\ \A t \in BagToSet(tasks) :
         t.pc \in {"entry", "go"} =>
           \A j \in 1..(t.idx - 1) :
             OutcomeAt(t.path, j).act = "error" =>
               OutcomeAt(t.path, j).err \in Range(raised)
    /\ crawlPc = "returned" =>
         \A k \in RootEntries : \A j \in RootEntries :
           (k < j /\ OutcomeAt(Root, k).act = "error") =>
             /\ OutcomeAt(Root, k).err \in Range(raised)
             /\ OutcomeAt(Root, j).act = "error" =>
                  OutcomeAt(Root, j).err \in Range(raised)
             /\ OutcomeAt(Root, j).act = "emit" =>
                  OutcomeAt(Root, j).rec \in BagToSet(Emitted)
             /\ OutcomeAt(Root, j).act = "spawn" =>
                  SeqCrawl(FS, followSymlink, pattern, OutcomeAt(Root, j).path, MaxDepth)
                    \subseteq BagToSet(Emitted)

\* the scenario: the cycle a -> b -> a comes first in the root; both errors
\* are reported, then u.txt is emitted and d2 crawled
C16_Witness ==
  /\ crawlPc = "returned"
  /\ followSymlink
  /\ tree = 2
  /\ pattern = ""
  /\ Len(raised) = 2
  /\ [path |-> <<"r", "u.txt">>, ino |-> <<"r", "u.txt">>] \in BagToSet(Emitted)
  /\ [path |-> <<"r", "d2", "c.txt">>, ino |-> <<"r", "d2", "c.txt">>] \in BagToSet(Emitted)

\* C17: reporting an error never blocks the visit and the error queue is
\* only read after the traversal: the queue never exceeds its capacity,
\* until Crawl drains it it holds the first ErrCap errors of the run in
\* the order they were reported, a visit with an error to report can always
\* take its step, and the report of Crawl holds the errors up to ErrCap.
C17_ErrorsNeverBlock ==
  /\ Len(Error) <= ErrCap
  /\ crawlPc \notin {"returned", "exited"} => Error = FirstN(raised, ErrCap)
  /\ crawlPc = "returned" =>
       Len(result) = (IF Len(raised) < ErrCap THEN Len(raised) ELSE ErrCap)
  /\ \A t \in BagToSet(tasks) :
       /\ (t.pc = "readDir" /\ readDir(FS, t.path).err # "") => ENABLED ReadDirFails(t)
       /\ (t.pc = "entry" /\ Outcome(t).act = "error") => ENABLED EntryError(t)

\* the scenario: more errors than the queue holds; the visit went on to
\* the file after the dropped errors and the report is cut at ErrCap
C17_Witness ==
  /\ crawlPc = "returned"
  /\ Len(raised) > ErrCap
  /\ Len(result) = ErrCap
  /\ Emitted # EmptyBag

\* C18 (as claimed): records are written in the order in which they were
\* enqueued, also while the sink and Crawl's own outputResult both read
\* the closed queue: what has been written is the beginning of what has
\* been enqueued.
C18_ArrivalOrder == written = FirstN(sent, Len(written))

\* C19: with followSymlink false a link is never resolved and, like a
\* fifo, device or socket, costs nothing but a skipped entry: a visit that
\* stands at such an entry skips it, the only errors are failed listings,
\* every record is a regular file under its own path, every visit is of a
\* real directory reached through real directories, and when Crawl returns
\* the records are exactly the matching regular files of the tree.
C19_LinksSkipped ==
  ~followSymlink =>
    /\ \A t \in BagToSet(tasks) :
         /\ t.path \in DOMAIN FS
         /\ FS[t.path].kind = "dir"
         /\ Listable(FS, t.path)
         /\ (t.pc = "entry" /\ FS[EntryPath(t)].kind \notin {"dir", "file"}) =>
              Outcome(t).act = "skip"
    /\ \A e \in Range(raised) : e.msg = "open"
    /\ \A r \in BagToSet(Emitted) :
         r.path = r.ino /\ r.path \in FilesUnder(FS, pattern)
    /\ crawlPc = "returned" =>
         /\ Emitted = SetToBag({[path |-> p, ino |-> p] : p \in FilesUnder(FS, pattern)})
         /\ Len(raised) = Cardinality(Unlistable(FS))

\* the scenario: a link to a file and a link to a directory beside the
\* directory d2; only d2/c.txt is recorded and nothing is reported
C19_Witness ==
  /\ crawlPc = "returned"
  /\ ~followSymlink
  /\ tree = 5
  /\ pattern = ""
  /\ raised = <<>>
  /\ Emitted = SetToBag({[path |-> <<"r", "d2", "c.txt">>, ino |-> <<"r", "d2", "c.txt">>]})

\* C20: the sink and Crawl's own outputResult read the same channel, and
\* a record goes to one of them only: every record enqueued so far is, once
\* for each time it was enqueued, either still in the channel, held by one
\* reader, or written, so the lines written never repeat an enqueue.
C20_TakenOnce ==
  /\ Emitted = SeqToBag(sent)
  /\ SeqToBag(written) \sqsubseteq SeqToBag(sent)

\* the scenario: both readers hold a record at the same time, after the
\* channel was closed
C20_Witness ==
  /\ outClosed
  /\ sinkPc = "print"
  /\ crawlPc = "print"
  /\ sinkInfo # <<>>
  /\ mainInfo # <<>>
  /\ sinkInfo # mainInfo

====
